---- MODULE Spec2Model ----
(***************************************************************************)
(* The monitoring plugin: the refresh controller of MonitoringApp          *)
(* (public/components/app.tsx), the percentage helpers and the recovery    *)
(* normaliser of the server routes, and the drift comparison of the        *)
(* cluster section.                                                        *)
(***************************************************************************)
EXTENDS Integers, Sequences, FiniteSets, TLC

VARIABLES
    storage,          \* localStorage: key -> item (JSON text, or NoItem)
    mounted,          \* a MonitoringApp instance is mounted
    autoRefresh,      \* useState: the auto-refresh switch
    refreshInterval,  \* useState: the interval as typed or loaded (a JS value)
    isIntervalValid,  \* useState: the validation flag
    intervalId,       \* the current effect closure's intervalId (0 = undefined)
    timers,           \* the browser's live interval timers: {[id, ms, dead]}
    cycles,           \* the fetchAllData() calls not yet forgotten, by slot
    data,             \* useState: per kind, whose response is stored
    loading,          \* useState: the five loading flags
    lastRefreshTime,  \* useState: which cycle recorded the last refresh
    toasts,           \* notifications.toasts since the latest fetchAllData() call
    budget,           \* what the behaviour explores: [faults, stragglers] (never changes)
    pct,              \* getPercentage: [used, total, node, cluster]
    recovery,         \* formatRecoveryStats: [raw, out]
    drift,            \* the drift alert: [config, stats, nodes, alert]
    differences,      \* getNodeDifferences: [configured, actual, out]
    layout,           \* NetworkGraph: [nodes, out]
    nodeStats         \* formatNodeStats: [raw, out]

ctl == <<storage, mounted, autoRefresh, refreshInterval, isIntervalValid,
         intervalId, timers, cycles, data, loading, lastRefreshTime, toasts, budget>>

pure == <<pct, recovery, drift, differences, layout, nodeStats>>

vars == <<ctl, pure>>

(***************************************************************************)
(* Bounds of the exploration.                                              *)
(***************************************************************************)
IntervalSpread == 1   \* typed intervals range over MinInterval -/+ IntervalSpread
MaxFaults == 1        \* responses that reject or carry no data, between two fetchAllData() calls
MaxStragglers == 1    \* fetches still pending when a further fetchAllData() starts

MinInterval == 30
MsPerSecond == 1000

(***************************************************************************)
(* JavaScript values and their JSON text.                                  *)
(***************************************************************************)
NaN == [t |-> "NaN"]
Null == [t |-> "null"]
Num(n) == [t |-> "num", v |-> n]

NoItem == "(no item)"

TypedInts == (MinInterval - IntervalSpread)..(MinInterval + IntervalSpread)

\* parseInt(e.target.value, 10) of a number field: an integer, or NaN for ''
IntervalInputs == {Num(n) : n \in TypedInts} \cup {NaN}

JSONstringifyNumber(v) == IF v.t = "num" THEN ToString(v.v) ELSE "null"

JSONstringifyBoolean(b) == IF b THEN "true" ELSE "false"

JSONparse(item) ==
    CASE item = "true" -> TRUE
      [] item = "false" -> FALSE
      [] item = "null" -> Null
      [] OTHER -> Num(CHOOSE n \in TypedInts : ToString(n) = item)

\* const item = localStorage.getItem(key); return item ? JSON.parse(item) : defaultValue
getLocalStorageItem(key, defaultValue) ==
    IF storage[key] # NoItem /\ storage[key] # ""
    THEN JSONparse(storage[key])
    ELSE defaultValue

setLocalStorageItem(st, key, text) == [st EXCEPT ![key] = text]

(***************************************************************************)
(* Telemetry kinds, the state each fetcher writes, and the fetchAllData()  *)
(* calls.  A call keeps its slot until the next call starts after it has   *)
(* completed; what it stored is from then on told apart only as Stale.     *)
(***************************************************************************)
Kinds == {"cluster", "nodes", "recovery", "clusterStats", "config", "snapshots"}

LoadingFlags == {"loading", "snapshotsLoading", "clusterHealthLoading",
                 "clusterStatsLoading", "clusterConfigLoading"}

FlagOf(k) ==
    CASE k = "cluster" -> "clusterHealthLoading"
      [] k = "nodes" -> "loading"
      [] k = "recovery" -> "loading"
      [] k = "clusterStats" -> "clusterStatsLoading"
      [] k = "config" -> "clusterConfigLoading"
      [] k = "snapshots" -> "snapshotsLoading"

NoData == [of |-> "none"]                  \* the useState initial value ([] or null or '')
Stale == [of |-> "earlier"]                \* the response of a forgotten cycle
Fresh(c) == [of |-> "cycle", id |-> c]     \* the response of the cycle in slot c

InitialData == [k \in Kinds |-> NoData]
NotLoading == [f \in LoadingFlags |-> FALSE]

Slots == 1..(MaxStragglers + 1)
FreeSlot == [used |-> FALSE, dead |-> FALSE, overlap |-> FALSE,
             st |-> [k \in Kinds |-> "-"]]

Used == {c \in Slots : cycles[c].used}
Pending(c) == {k \in Kinds : cycles[c].st[k] = "pending"}
InFlight == {c \in Used : Pending(c) # {}}
Stragglers == {ck \in Slots \X Kinds : cycles[ck[1]].st[ck[2]] = "pending"}

Retag(v, released) == IF v.of = "cycle" /\ v.id \in released THEN Stale ELSE v

(***************************************************************************)
(* The auto-refresh effect.                                                *)
(***************************************************************************)
validateInterval(value) == value.t = "num" /\ value.v >= MinInterval

\* refreshInterval * 1000 as setInterval takes it (null and NaN delays are 0)
TimerDelay(value) == IF value.t = "num" THEN value.v * MsPerSecond ELSE 0

\* the handle setInterval returns: not one of a live timer, nor the one the
\* previous run of the effect held
FreshHandle(ts) ==
    LET free == {h \in 1..(Cardinality(ts) + 2) :
                    h # intervalId /\ \A t \in ts : t.id # h}
    IN CHOOSE h \in free : \A h2 \in free : h <= h2

clearIntervalNoop(ts, id) == ts

clearInterval(ts, id) == {t \in ts : t.id # id}

EffectCleanupKeep(ts) == ts

\* return () => { if (intervalId) clearInterval(intervalId); }
EffectCleanup(ts) == IF intervalId # 0 THEN clearInterval(ts, intervalId) ELSE ts

ArmOnSwitchAlone(ar, valid) == ar

\* if (autoRefresh && isIntervalValid)
ShouldArm(ar, valid) == ar /\ valid

PersistOnlyValid(st, value) ==
    IF validateInterval(value)
    THEN setLocalStorageItem(st, "refreshInterval", JSONstringifyNumber(value))
    ELSE st

\* setRefreshIntervalPersisted: the localStorage half
\* (the setRefreshInterval half is refreshInterval' in handleIntervalChange)
setRefreshIntervalPersisted(st, value) ==
    setLocalStorageItem(st, "refreshInterval", JSONstringifyNumber(value))

CanFetch == Cardinality(Stragglers) <= budget.stragglers
CanFault == Len(toasts) < budget.faults

\* fetchAllData() called by an instance (dead: already torn down): every fetcher
\* runs up to its await, setting its loading flag
fetchAllData(dead, baseData, baseLast, baseLoading) ==
    LET released == Used \ InFlight
        c == CHOOSE s \in Slots \ InFlight : \A s2 \in Slots \ InFlight : s <= s2
    IN /\ cycles' = [s \in Slots |->
                       IF s = c
                       THEN [used |-> TRUE, dead |-> dead,
                             overlap |-> InFlight # {},
                             st |-> [k \in Kinds |-> "pending"]]
                       ELSE IF s \in InFlight
                       THEN [cycles[s] EXCEPT !.overlap = TRUE]
                       ELSE FreeSlot]
       /\ data' = [k \in Kinds |-> Retag(baseData[k], released)]
       /\ lastRefreshTime' = Retag(baseLast, released)
       /\ toasts' = <<>>
       /\ loading' = IF dead THEN baseLoading ELSE [f \in LoadingFlags |-> TRUE]

RunEffectFetchingWhenArmed(ar, ri, valid, ts, baseData, baseLast) ==
    IF ShouldArm(ar, valid)
    THEN LET h == FreshHandle(ts)
         IN /\ fetchAllData(FALSE, baseData, baseLast, loading)
            /\ timers' = ts \cup {[id |-> h, ms |-> TimerDelay(ri), dead |-> FALSE]}
            /\ intervalId' = h
    ELSE /\ timers' = ts
         /\ intervalId' = 0
         /\ data' = baseData
         /\ lastRefreshTime' = baseLast
         /\ UNCHANGED <<cycles, toasts, loading>>

\* one run of the effect body, after any cleanup left the timers ts
RunEffect(ar, ri, valid, ts, baseData, baseLast) ==
    /\ fetchAllData(FALSE, baseData, baseLast, loading)
    /\ IF ShouldArm(ar, valid)
       THEN LET h == FreshHandle(ts)
            IN /\ timers' = ts \cup {[id |-> h, ms |-> TimerDelay(ri), dead |-> FALSE]}
               /\ intervalId' = h
       ELSE /\ timers' = ts
            /\ intervalId' = 0

(***************************************************************************)
(* Actions.                                                                *)
(***************************************************************************)
\* a new session: MonitoringApp is constructed and its effect runs
Mount ==
    /\ ~mounted
    /\ CanFetch
    /\ mounted' = TRUE
    /\ autoRefresh' = getLocalStorageItem("autoRefresh", FALSE)
    /\ refreshInterval' = getLocalStorageItem("refreshInterval", Num(MinInterval))
    /\ isIntervalValid' = TRUE
    /\ RunEffect(autoRefresh', refreshInterval', isIntervalValid', timers,
                 InitialData, NoData)
    /\ UNCHANGED <<storage, budget, pure>>

\* teardown: the effect's cleanup runs; the instance's state is gone and the
\* setters its pending fetchers hold no longer act
Unmount ==
    /\ mounted
    /\ mounted' = FALSE
    /\ timers' = {[t EXCEPT !.dead = TRUE] : t \in EffectCleanup(timers)}
    /\ intervalId' = 0
    /\ cycles' = [s \in Slots |->
                    IF s \in InFlight THEN [cycles[s] EXCEPT !.dead = TRUE] ELSE FreeSlot]
    /\ toasts' = toasts
    /\ autoRefresh' = FALSE
    /\ refreshInterval' = Num(MinInterval)
    /\ isIntervalValid' = TRUE
    /\ data' = InitialData
    /\ loading' = NotLoading
    /\ lastRefreshTime' = NoData
    /\ UNCHANGED <<storage, budget, pure>>

\* the Auto-refresh switch: onChange={() => setAutoRefreshPersisted(!autoRefresh)}
setAutoRefreshPersisted ==
    /\ mounted
    /\ CanFetch
    /\ autoRefresh' = ~autoRefresh
    /\ storage' = setLocalStorageItem(storage, "autoRefresh",
                                      JSONstringifyBoolean(~autoRefresh))
    /\ RunEffect(autoRefresh', refreshInterval, isIntervalValid,
                 EffectCleanup(timers), data, lastRefreshTime)
    /\ UNCHANGED <<mounted, refreshInterval, isIntervalValid, budget, pure>>

\* the interval field (rendered only while autoRefresh is on); the effect runs
\* again when one of its dependencies changed
handleIntervalChange(value) ==
    /\ mounted
    /\ autoRefresh
    /\ storage' = setRefreshIntervalPersisted(storage, value)
    /\ refreshInterval' = value
    /\ isIntervalValid' = validateInterval(value)
    /\ IF value # refreshInterval \/ isIntervalValid' # isIntervalValid
       THEN /\ CanFetch
            /\ RunEffect(autoRefresh, value, isIntervalValid',
                         EffectCleanup(timers), data, lastRefreshTime)
       ELSE UNCHANGED <<timers, intervalId, cycles, data, loading,
                        lastRefreshTime, toasts>>
    /\ UNCHANGED <<mounted, autoRefresh, budget, pure>>

TimerTickUnlessBusy(t) ==
    /\ t \in timers
    /\ InFlight = {}
    /\ CanFetch
    /\ fetchAllData(t.dead, data, lastRefreshTime, loading)
    /\ UNCHANGED <<storage, mounted, autoRefresh, refreshInterval,
                   isIntervalValid, intervalId, timers, budget, pure>>

\* a live timer fires and calls its effect's fetchAllData
TimerTick(t) ==
    /\ t \in timers
    /\ CanFetch
    /\ fetchAllData(t.dead, data, lastRefreshTime, loading)
    /\ UNCHANGED <<storage, mounted, autoRefresh, refreshInterval,
                   isIntervalValid, intervalId, timers, budget, pure>>

\* how a request can settle: "ok" a response with data, "failed" a rejection; for
\* snapshots also "empty" (snapshots: []) and "nodata" (no snapshots property)
AllOutcomes == {"ok", "empty", "nodata", "failed"}

Outcomes(k) == IF k = "snapshots" THEN AllOutcomes ELSE {"ok", "failed"}

StoreWhenTornDown(dead, v, old) == v

\* a state setter called by a fetcher: it acts unless its instance is torn down
SetState(dead, v, old) == IF dead THEN old ELSE v

SettleDataKeepingOld(c, k, outcome) ==
    CASE outcome = "ok" -> [data EXCEPT ![k] = Fresh(c)]
      [] OTHER -> data

SettleDataClearingOnFailure(c, k, outcome) ==
    CASE outcome = "ok" -> [data EXCEPT ![k] = Fresh(c)]
      [] OTHER -> [data EXCEPT ![k] = NoData]

SettleDataUnlessNewer(c, k, outcome) ==
    CASE outcome = "ok" /\ data[k].of = "cycle" /\ data[k].id # c -> data
      [] outcome = "ok" -> [data EXCEPT ![k] = Fresh(c)]
      [] k = "snapshots" -> [data EXCEPT ![k] = NoData]
      [] OTHER -> data

\* what the fetcher of kind k stores when its request of cycle c settles
SettleData(c, k, outcome) ==
    CASE outcome = "ok" -> [data EXCEPT ![k] = Fresh(c)]
      [] k = "snapshots" -> [data EXCEPT ![k] = NoData]
      [] OTHER -> data

SettleToasts(c, k, outcome) ==
    CASE outcome = "failed" -> Append(toasts, [level |-> "danger", kind |-> k, cycle |-> c])
      [] outcome = "nodata" -> Append(toasts, [level |-> "warning", kind |-> k, cycle |-> c])
      [] OTHER -> toasts

ResolvesWhenAllOk(st) == \A k \in Kinds : st[k] = "ok"

ResolvesOnFirstSettle(st) == \E k \in Kinds : st[k] # "pending"

\* await Promise.all([...]): every fetcher catches its error, so the promise
\* resolves once no fetcher is pending
PromiseAllResolves(st) == \A k \in Kinds : st[k] # "pending"

\* the request of kind k of cycle c settles: try / catch / finally of the fetcher,
\* then the continuation of Promise.all when it was the last one
Settle(c, k, outcome) ==
    /\ c \in Used
    /\ cycles[c].st[k] = "pending"
    /\ outcome \in Outcomes(k)
    /\ outcome # "ok" => CanFault
    /\ cycles' = [cycles EXCEPT ![c].st[k] = outcome]
    /\ toasts' = SettleToasts(c, k, outcome)
    /\ data' = SetState(cycles[c].dead, SettleData(c, k, outcome), data)
    /\ loading' = SetState(cycles[c].dead, [loading EXCEPT ![FlagOf(k)] = FALSE], loading)
    /\ lastRefreshTime' = IF PromiseAllResolves(cycles'[c].st)
                          THEN SetState(cycles[c].dead, Fresh(c), lastRefreshTime)
                          ELSE lastRefreshTime
    /\ UNCHANGED <<storage, mounted, autoRefresh, refreshInterval,
                   isIntervalValid, intervalId, timers, budget, pure>>

(***************************************************************************)
(* The percentage helpers of the server routes.  A JavaScript number is    *)
(* held exactly: Frac(n, d) is n / d with d > 0.                           *)
(***************************************************************************)
MaxBytes == 5         \* used and total range over -1 .. MaxBytes

Bytes == (0 - 1)..MaxBytes

Frac(n, d) == [t |-> "frac", n |-> n, d |-> d]
Infinity(sign) == [t |-> "Infinity", sign |-> sign]
Zero == Frac(0, 1)
Unset == [t |-> "unset"]

\* (used / total) * 100
DivTimes100(used, total) ==
    CASE total > 0 -> Frac(used * 100, total)
      [] total < 0 -> Frac((0 - used) * 100, 0 - total)
      [] used > 0 -> Infinity(1)
      [] used < 0 -> Infinity(0 - 1)
      [] OTHER -> NaN

NodeGetPercentageUnguarded(used, total) == DivTimes100(used, total)

\* formatNodeStats.ts: return total > 0 ? (used / total) * 100 : 0
NodeGetPercentage(used, total) ==
    IF total > 0 THEN DivTimes100(used, total) ELSE Zero

\* formatClusterStats.ts: if (!total) return 0; return (used / total) * 100
ClusterGetPercentage(used, total) ==
    IF total = 0 THEN Zero ELSE DivTimes100(used, total)

NodePercentage ==
    /\ pct.node = Unset
    /\ pct' = [pct EXCEPT !.node = NodeGetPercentage(pct.used, pct.total)]
    /\ UNCHANGED <<ctl, recovery, drift, differences, layout, nodeStats>>

ClusterPercentage ==
    /\ pct.cluster = Unset
    /\ pct' = [pct EXCEPT !.cluster = ClusterGetPercentage(pct.used, pct.total)]
    /\ UNCHANGED <<ctl, recovery, drift, differences, layout, nodeStats>>

(***************************************************************************)
(* formatRecoveryStats.  An object is a record of JavaScript values, a     *)
(* missing property being Undefined.                                       *)
(***************************************************************************)
MaxTotal == 1         \* the totals of a recovery group range over -1 .. MaxTotal
MaxIndices == 2       \* indices of a raw recovery document
MaxShards == 2        \* shards of one index

Undefined == [t |-> "undefined"]
Str(s) == [t |-> "str", s |-> s]
Arr(items) == [t |-> "arr", items |-> items]

IsNullish(v) == v.t \in {"undefined", "null"}

\* a ?? b
Coalesce(a, b) == IF IsNullish(a) THEN b ELSE a

\* a || {}  for a an object or undefined
OrEmpty(a, empty) == IF IsNullish(a) THEN empty ELSE a

EmptyGroup == [t |-> "obj", total |-> Undefined, percent |-> Undefined,
               recovered |-> Undefined]
EmptySize == [t |-> "obj", total_in_bytes |-> Undefined, percent |-> Undefined,
              recovered_in_bytes |-> Undefined]
EmptyIndexStats == [t |-> "obj", size |-> Undefined, files |-> Undefined]
EmptyEndpoint == [t |-> "obj", host |-> Undefined, name |-> Undefined]

PercentIgnoringTotal(total, percent) == Coalesce(percent, Str("0%"))

PercentRecomputed(total, percent) ==
    IF Coalesce(total, Num(0)) = Num(0) THEN Str("-") ELSE Str("0%")

\* (x.total ?? 0) === 0 ? '-' : x.percent ?? '0%'
PercentOrDash(total, percent) ==
    IF Coalesce(total, Num(0)) = Num(0)
    THEN Str("-")
    ELSE Coalesce(percent, Str("0%"))

\* the record pushed for one shard of index indexName
formatShard(indexName, shard) ==
    LET source == OrEmpty(shard.source, EmptyEndpoint)
        target == OrEmpty(shard.target, EmptyEndpoint)
        indexStats == OrEmpty(shard.index, EmptyIndexStats)
        indexSize == OrEmpty(indexStats.size, EmptySize)
        indexFiles == OrEmpty(indexStats.files, EmptyGroup)
        transLog == OrEmpty(shard.translog, EmptyGroup)
    IN [index |-> indexName,
        shard |-> shard.id,
        time |-> shard.total_time_in_millis,
        type |-> shard.type,
        stage |-> shard.stage,
        source_host |-> Coalesce(source.host, Str("-")),
        source_node |-> Coalesce(source.name, Str("-")),
        target_host |-> Coalesce(target.host, Str("-")),
        target_node |-> Coalesce(target.name, Str("-")),
        files |-> Coalesce(indexFiles.total, Num(0)),
        files_recovered |-> Coalesce(indexFiles.recovered, Num(0)),
        files_percent |-> PercentOrDash(indexFiles.total, indexFiles.percent),
        files_total |-> Coalesce(indexFiles.total, Num(0)),
        bytes |-> Coalesce(indexSize.recovered_in_bytes, Num(0)),
        bytes_recovered |-> Coalesce(indexSize.recovered_in_bytes, Num(0)),
        bytes_percent |-> PercentOrDash(indexSize.total_in_bytes, indexSize.percent),
        bytes_total |-> Coalesce(indexSize.total_in_bytes, Num(0)),
        translog_recovered |-> Coalesce(transLog.recovered, Num(0)),
        translog_percent |-> PercentOrDash(transLog.total, transLog.percent),
        translog_total |-> Coalesce(transLog.total, Num(0))]

formatIndexOneRecord(entry) ==
    LET shards == Coalesce(entry.data.shards, Arr(<<>>)).items
    IN IF shards = <<>> THEN <<>> ELSE <<formatShard(entry.name, shards[1])>>

\* const shards = indexData.shards ?? []; shards.forEach(push)
formatIndex(entry) ==
    LET shards == Coalesce(entry.data.shards, Arr(<<>>)).items
    IN [i \in 1..Len(shards) |-> formatShard(entry.name, shards[i])]

RECURSIVE formatEntries(_)
formatEntries(entries) ==
    IF entries = <<>>
    THEN <<>>
    ELSE formatIndex(Head(entries)) \o formatEntries(Tail(entries))

\* rawData is held as Object.entries(rawData): <<[name, data]>>
formatRecoveryStats(rawData) == formatEntries(rawData)

Range(list) == {list[i] : i \in 1..Len(list)}

SeqsUpTo(S, n) == UNION {[1..m -> S] : m \in 0..n}

Totals == {Undefined} \cup {Num(n) : n \in (0 - 1)..MaxTotal}
Percents == {Undefined, Str("50.0%")}
FileGroups == {Undefined} \cup
    [t : {"obj"}, total : Totals, percent : Percents, recovered : {Undefined}]
SizeGroups == {Undefined} \cup
    [t : {"obj"}, total_in_bytes : Totals, percent : Percents,
     recovered_in_bytes : {Undefined}]
IndexStats == {Undefined} \cup [t : {"obj"}, size : SizeGroups, files : FileGroups]
Endpoints == {Undefined, [t |-> "obj", host |-> Str("h1"), name |-> Str("n1")]}

Shard(id, source, target, index, translog) ==
    [id |-> Num(id), total_time_in_millis |-> Num(5), type |-> Str("PEER"),
     stage |-> Str("DONE"), source |-> source, target |-> target,
     index |-> index, translog |-> translog]

AllShards == {Shard(0, s, g, i, l) :
                s \in Endpoints, g \in Endpoints, i \in IndexStats, l \in FileGroups}

NoTotals == Shard(0, Undefined, Undefined, Undefined, Undefined)
ZeroGroup == [EmptyGroup EXCEPT !.total = Num(0), !.percent = Str("50.0%")]
SomeGroup == [EmptyGroup EXCEPT !.total = Num(1), !.percent = Str("50.0%")]
ZeroTotals ==
    Shard(1, Undefined, Undefined,
          [t |-> "obj", files |-> ZeroGroup,
           size |-> [EmptySize EXCEPT !.total_in_bytes = Num(0)]],
          ZeroGroup)
SomeTotals ==
    Shard(2, Undefined, Undefined,
          [t |-> "obj", files |-> SomeGroup,
           size |-> [EmptySize EXCEPT !.total_in_bytes = Num(1),
                                      !.percent = Str("50.0%")]],
          SomeGroup)
SampleShards == <<NoTotals, ZeroTotals, SomeTotals>>

\* the m sample shards from the one at position first on, cyclically
ShardList(first, m) ==
    [i \in 1..m |-> SampleShards[((first + i - 2) % Len(SampleShards)) + 1]]

IndexName(i) == "idx" \o ToString(i)

\* one index with one shard of any shape
OneShardInputs ==
    {<<[name |-> IndexName(1), data |-> [shards |-> Arr(<<s>>)]]>> : s \in AllShards}

\* several indices, each without shards property or with a list of sample shards
ListInputs ==
    LET datas == {[shards |-> Undefined]} \cup
                 {[shards |-> Arr(ShardList(first, m))] :
                     first \in 1..Len(SampleShards), m \in 0..MaxShards}
    IN UNION {{[i \in 1..m |-> [name |-> IndexName(i), data |-> f[i]]] :
                  f \in [1..m -> datas]} : m \in 0..MaxIndices}

RecoveryInputs == OneShardInputs \cup ListInputs

FormatRecovery ==
    /\ recovery.out = Unset
    /\ recovery' = [recovery EXCEPT !.out = Arr(formatRecoveryStats(recovery.raw))]
    /\ UNCHANGED <<ctl, pct, drift, differences, layout, nodeStats>>

(***************************************************************************)
(* The drift alert of the cluster section.                                 *)
(***************************************************************************)
MaxNodes == 2         \* length of the configured and of the observed node list

NodeNames == {"n" \o ToString(i) : i \in 1..MaxNodes}

Includes(list, x) == \E i \in 1..Len(list) : list[i] = x

\* list.filter(keep)
RECURSIVE FilterOut(_, _)
FilterOut(list, excluded) ==
    IF list = <<>> THEN <<>>
    ELSE IF Includes(excluded, Head(list))
         THEN FilterOut(Tail(list), excluded)
         ELSE <<Head(list)>> \o FilterOut(Tail(list), excluded)

\* names compared position by position
getNodeDifferencesByPosition(configNodes, actualNodes) ==
    LET differs(i) == i > Len(actualNodes) \/ i > Len(configNodes)
                         \/ actualNodes[i].name # configNodes[i]
    IN [missingNodes |-> SelectSeq([i \in 1..Len(configNodes) |->
                                       IF differs(i) THEN configNodes[i] ELSE ""],
                                   LAMBDA x : x # ""),
        extraNodes |-> SelectSeq([i \in 1..Len(actualNodes) |->
                                     IF differs(i) THEN actualNodes[i].name ELSE ""],
                                 LAMBDA x : x # "")]

\* only the configured names are looked for
getNodeDifferencesOneWay(configNodes, actualNodes) ==
    [missingNodes |->
        FilterOut(configNodes, [i \in 1..Len(actualNodes) |-> actualNodes[i].name]),
     extraNodes |-> <<>>]

getNodeDifferences(configNodes, actualNodes) ==
    LET actualNodeNames == [i \in 1..Len(actualNodes) |-> actualNodes[i].name]
    IN [missingNodes |-> FilterOut(configNodes, actualNodeNames),
        extraNodes |-> FilterOut(actualNodeNames, configNodes)]

NoAlert == [shown |-> FALSE, threw |-> FALSE, missing |-> <<>>, extra |-> <<>>]

\* clusterConfig && clusterStats && (missingNodes.length > 0 || extraNodes.length > 0)
\* clusterConfig is null, the array [] of the config route, or {nodes: [...]}
DriftAlert(clusterConfig, clusterStats, nodesData) ==
    IF clusterConfig.t = "null" \/ clusterStats.t = "null"
    THEN NoAlert
    ELSE IF clusterConfig.t = "arr"
    THEN [NoAlert EXCEPT !.threw = TRUE]
    ELSE LET d == getNodeDifferences(clusterConfig.nodes, nodesData)
         IN [shown |-> Len(d.missingNodes) > 0 \/ Len(d.extraNodes) > 0,
             threw |-> FALSE,
             missing |-> d.missingNodes,
             extra |-> d.extraNodes]

NameLists == SeqsUpTo(NodeNames, MaxNodes)

ConfigResponses ==
    {Null, Arr(<<>>)} \cup {[t |-> "obj", nodes |-> l] : l \in NameLists}

RenderClusterSection ==
    /\ drift.alert = Unset
    /\ drift' = [drift EXCEPT !.alert = DriftAlert(drift.config, drift.stats, drift.nodes)]
    /\ UNCHANGED <<ctl, pct, recovery, differences, layout, nodeStats>>

(***************************************************************************)
(* getNodeDifferences on its own.                                          *)
(***************************************************************************)
MaxListLen == 2       \* length of the lists handed to getNodeDifferences
MaxNames == 3         \* distinct node names in them

DifferenceNames == {"n" \o ToString(i) : i \in 1..MaxNames}
DifferenceLists == SeqsUpTo(DifferenceNames, MaxListLen)

\* the node records of the given names, in that order
NodeRecords(names) == [i \in 1..Len(names) |-> [name |-> names[i]]]

ComputeDifferences ==
    /\ differences.out = Unset
    /\ differences' =
          [differences EXCEPT
             !.out = getNodeDifferences(differences.configured, differences.actual)]
    /\ UNCHANGED <<ctl, pct, recovery, drift, layout, nodeStats>>

(***************************************************************************)
(* NetworkGraph: the topology layout.  A string is the tuple of its        *)
(* characters; an object with string keys is the sequence of its entries   *)
(* [key, val] in insertion order.                                          *)
(***************************************************************************)
MaxGraphNodes == 2    \* nodes handed to NetworkGraph

zoneMargin == 40
roleMargin == 20
padding == 10
hostSpacing == 18
roleTitleHeight == 20
rolePadding == 10
zoneWidth == 220
zoneTitleHeight == 40

\* the characters in use, in the order of their UTF-16 code units
Alphabet == <<" ", "1", "2", "3", "a", "b", "d", "e", "f", "l", "m", "n", "t", "u">>

Code(ch) == CHOOSE i \in 1..Len(Alphabet) : Alphabet[i] = ch

Default == <<"d", "e", "f", "a", "u", "l", "t">>

\* a < b as Array.prototype.sort() compares strings
RECURSIVE LexLess(_, _)
LexLess(a, b) ==
    IF a = <<>> THEN b # <<>>
    ELSE IF b = <<>> THEN FALSE
    ELSE IF Head(a) = Head(b) THEN LexLess(Tail(a), Tail(b))
    ELSE Code(Head(a)) < Code(Head(b))

RECURSIVE InsertSorted(_, _)
InsertSorted(x, sorted) ==
    IF sorted = <<>> THEN <<x>>
    ELSE IF LexLess(x, Head(sorted)) THEN <<x>> \o sorted
    ELSE <<Head(sorted)>> \o InsertSorted(x, Tail(sorted))

KeepOrder(list) == list

\* list.sort()
RECURSIVE sort(_)
sort(list) ==
    IF list = <<>> THEN <<>>
    ELSE InsertSorted(list[Len(list)], sort(SubSeq(list, 1, Len(list) - 1)))

RECURSIVE trimStart(_)
trimStart(str) ==
    IF str # <<>> /\ Head(str) = " " THEN trimStart(Tail(str)) ELSE str

RECURSIVE trimEnd(_)
trimEnd(str) ==
    IF str # <<>> /\ str[Len(str)] = " "
    THEN trimEnd(SubSeq(str, 1, Len(str) - 1))
    ELSE str

\* str.trim()
trim(str) == trimEnd(trimStart(str))

\* Object.keys(obj)
ObjectKeys(obj) == [i \in 1..Len(obj) |-> obj[i].key]

HasKey(obj, k) == \E i \in 1..Len(obj) : obj[i].key = k

\* obj[k]
GetKey(obj, k) == obj[CHOOSE i \in 1..Len(obj) : obj[i].key = k].val

\* obj[k] = v
SetKey(obj, k, v) ==
    IF HasKey(obj, k)
    THEN [i \in 1..Len(obj) |-> IF obj[i].key = k THEN [key |-> k, val |-> v] ELSE obj[i]]
    ELSE Append(obj, [key |-> k, val |-> v])

RolesOrUnassigned(n) == IF n.roles = <<>> THEN <<<<"n">>>> ELSE n.roles

\* the roles n.roles.forEach visits
RolesOf(n) == n.roles

\* n.roles.forEach(roleRaw => { ...; map[zone][role].push(n.name) })
RECURSIVE PushUnderRoles(_, _, _)
PushUnderRoles(roleMap, roles, name) ==
    IF roles = <<>> THEN roleMap
    ELSE LET role == trim(Head(roles))
             hosts == IF HasKey(roleMap, role) THEN GetKey(roleMap, role) ELSE <<>>
         IN PushUnderRoles(SetKey(roleMap, role, Append(hosts, name)), Tail(roles), name)

\* (n.zone || 'default').trim()
ZoneOf(n) ==
    trim(IF n.zone.t = "null" \/ n.zone.s = <<>> THEN Default ELSE n.zone.s)

\* the zone entered in the map when the first role of a node is pushed
RECURSIVE GroupNodesWithRoles(_, _)
GroupNodesWithRoles(map, nodes) ==
    IF nodes = <<>> THEN map
    ELSE LET n == Head(nodes)
             zone == ZoneOf(n)
             roleMap == IF HasKey(map, zone) THEN GetKey(map, zone) ELSE <<>>
         IN GroupNodesWithRoles(
               IF RolesOf(n) = <<>> THEN map
               ELSE SetKey(map, zone, PushUnderRoles(roleMap, RolesOf(n), n.name)),
               Tail(nodes))

\* nodes.forEach(n => { ... })
RECURSIVE GroupNodes(_, _)
GroupNodes(map, nodes) ==
    IF nodes = <<>> THEN map
    ELSE LET n == Head(nodes)
             zone == ZoneOf(n)
             roleMap == IF HasKey(map, zone) THEN GetKey(map, zone) ELSE <<>>
         IN GroupNodes(SetKey(map, zone, PushUnderRoles(roleMap, RolesOf(n), n.name)),
                       Tail(nodes))

\* the zoneMap memo: grouping, then every host list sorted
zoneMap(nodes) ==
    LET map == GroupNodes(<<>>, nodes)
    IN [z \in 1..Len(map) |->
          [key |-> map[z].key,
           val |-> [r \in 1..Len(map[z].val) |->
                      [key |-> map[z].val[r].key, val |-> sort(map[z].val[r].val)]]]]

RECURSIVE SumSeq(_)
SumSeq(numbers) == IF numbers = <<>> THEN 0 ELSE Head(numbers) + SumSeq(Tail(numbers))

\* the blocks counted with the height they are drawn with
calculatedZoneHeightOfDrawnBlocks(roleMap) ==
    zoneTitleHeight +
    SumSeq([r \in 1..Len(roleMap) |->
              roleTitleHeight + rolePadding + Len(roleMap[r].val) * hostSpacing
                 + roleMargin])

\* roles.reduce((acc, role) => acc + blockHeight + roleMargin, 40)
calculatedZoneHeight(roleMap) ==
    zoneTitleHeight +
    SumSeq([r \in 1..Len(roleMap) |->
              roleTitleHeight + rolePadding + Len(roleMap[r].val) * hostSpacing
                 + padding + roleMargin])

MathMin(heights) ==
    IF heights = <<>> THEN Infinity(1)
    ELSE Num(CHOOSE h \in Range(heights) : \A h2 \in Range(heights) : h <= h2)

\* Math.max(...heights)
MathMax(heights) ==
    IF heights = <<>> THEN Infinity(0 - 1)
    ELSE Num(CHOOSE h \in Range(heights) : \A h2 \in Range(heights) : h2 <= h)

roleBlockHeight(hosts) == roleTitleHeight + rolePadding + Len(hosts) * hostSpacing

\* every block as if it held no host
offsetYOfEmptyBlocks(roleMap, roles, i) ==
    zoneTitleHeight + (i - 1) * (roleTitleHeight + rolePadding + roleMargin)

\* offsetY when the i-th role of the sorted list is drawn
RECURSIVE offsetY(_, _, _)
offsetY(roleMap, roles, i) ==
    IF i = 1 THEN zoneTitleHeight
    ELSE offsetY(roleMap, roles, i - 1)
            + roleBlockHeight(GetKey(roleMap, roles[i - 1])) + roleMargin

\* the <Group> of one zone: background rectangle and role blocks
ZoneGroup(map, zones, zoneIdx) ==
    LET zone == zones[zoneIdx]
        roleMap == GetKey(map, zone)
        roles == sort(ObjectKeys(roleMap))
    IN [zone |-> zone,
        left |-> (zoneIdx - 1) * (zoneWidth + zoneMargin),
        width |-> zoneWidth,
        height |-> calculatedZoneHeight(roleMap),
        blocks |-> [i \in 1..Len(roles) |->
                      LET hosts == GetKey(roleMap, roles[i])
                      IN [role |-> roles[i],
                          top |-> offsetY(roleMap, roles, i),
                          left |-> padding,
                          width |-> zoneWidth - 2 * padding,
                          height |-> roleBlockHeight(hosts),
                          hosts |-> [h \in 1..Len(hosts) |->
                                       [label |-> hosts[h],
                                        x |-> (zoneWidth - 2 * padding) \div 2,
                                        y |-> roleTitleHeight + rolePadding
                                                 + (h - 1) * hostSpacing]]]]]

\* the blocks counted with the padding the zone height adds to each
roleOffsetYWithPadding(roleMap, roles, i) ==
    zoneTitleHeight +
    SumSeq([r \in 1..(i - 1) |->
              roleTitleHeight + rolePadding
                 + Len(GetKey(roleMap, roles[r])) * hostSpacing + padding + roleMargin])

\* roleOffsetY of the positions memo when the i-th role of the sorted list is
\* reached
RECURSIVE roleOffsetY(_, _, _)
roleOffsetY(roleMap, roles, i) ==
    IF i = 1 THEN zoneTitleHeight
    ELSE roleOffsetY(roleMap, roles, i - 1)
            + roleTitleHeight + rolePadding
            + Len(GetKey(roleMap, roles[i - 1])) * hostSpacing + roleMargin

RECURSIVE Flatten(_)
Flatten(lists) == IF lists = <<>> THEN <<>> ELSE Head(lists) \o Flatten(Tail(lists))

\* the points pushed for the hosts of one role, in the order of the pushes
hostPositions(zoneX, offset, hosts) ==
    [hostIdx \in 1..Len(hosts) |->
       [label |-> hosts[hostIdx],
        x |-> zoneX + padding + (zoneWidth - 2 * padding) \div 2,
        y |-> offset + roleTitleHeight + rolePadding + (hostIdx - 1) * hostSpacing]]

\* the points pushed for one zone
zonePositions(map, zones, zoneIdx) ==
    LET zoneX == (zoneIdx - 1) * (zoneWidth + zoneMargin)
        roleMap == GetKey(map, zones[zoneIdx])
        roles == sort(ObjectKeys(roleMap))
    IN Flatten([i \in 1..Len(roles) |->
                  hostPositions(zoneX, roleOffsetY(roleMap, roles, i),
                                GetKey(roleMap, roles[i]))])

\* if (!positions[hostLabel]) positions[hostLabel] = []; positions[hostLabel].push({x, y})
RECURSIVE pushPositions(_, _)
pushPositions(obj, points) ==
    IF points = <<>> THEN obj
    ELSE LET p == Head(points)
             old == IF HasKey(obj, p.label) THEN GetKey(obj, p.label) ELSE <<>>
         IN pushPositions(SetKey(obj, p.label, Append(old, [x |-> p.x, y |-> p.y])),
                          Tail(points))

\* the positions memo: host label -> list of points
positions(map, zones) ==
    pushPositions(<<>>, Flatten([i \in 1..Len(zones) |-> zonePositions(map, zones, i)]))

\* what NetworkGraph computes and renders for the given nodes
NetworkGraph(nodes) ==
    LET map == zoneMap(nodes)
        zones == sort(ObjectKeys(map))
    IN [positions |-> positions(map, zones),
        totalWidth |-> Len(zones) * (zoneWidth + zoneMargin),
        totalHeight |-> MathMax([i \in 1..Len(zones) |->
                                   calculatedZoneHeight(GetKey(map, zones[i]))]),
        zones |-> [i \in 1..Len(zones) |-> ZoneGroup(map, zones, i)]]

GraphNames == {<<"n", "1">>, <<"n", "2">>}
GraphRoleLists == {<<>>, <<<<"d">>>>, <<<<"m">>, <<"d">>>>, <<<<" ", "d">>>>}
GraphZones == {Null, Str(<<>>), Str(<<" ">>), Str(<<"a">>), Str(<<"b">>), Str(<<"a", " ">>)}
GraphNodes == [name : GraphNames, roles : GraphRoleLists, zone : GraphZones]
GraphInputs == SeqsUpTo(GraphNodes, MaxGraphNodes)

RenderNetworkGraph ==
    /\ layout.out = Unset
    /\ layout' = [layout EXCEPT !.out = NetworkGraph(layout.nodes)]
    /\ UNCHANGED <<ctl, pct, recovery, drift, differences, nodeStats>>

(***************************************************************************)
(* formatNodeStats.                                                        *)
(***************************************************************************)
MaxAmount == 4        \* byte counts of a raw node range over 0 .. MaxAmount

Amounts == 0..MaxAmount

memPercentVerbatim(mem) == Frac(mem.used_percent, 1)

\* getPercentage(usedMem, totalMem)
memPercent(mem) == NodeGetPercentage(mem.used_in_bytes, mem.total_in_bytes)

\* the record formatNodeStats maps one entry [id, node] of nodesObj to
formatNode(id, node) ==
    LET usedMem == node.os.mem.used_in_bytes
        totalMem == node.os.mem.total_in_bytes
        usedSwap == node.os.swap.used_in_bytes
        totalSwap == node.os.swap.total_in_bytes
        totalFs == node.fs.total.total_in_bytes
        freeFs == node.fs.total.free_in_bytes
        usedFs == totalFs - freeFs
    IN [id |-> id,
        name |-> node.name,
        host |-> node.host,
        roles |-> node.roles,
        zone |-> IF IsNullish(node.attributes)
                 THEN Null
                 ELSE Coalesce(node.attributes.zone, Null),
        cpu |-> [percent |-> node.os.cpu.percent],
        mem |-> [total |-> totalMem, used |-> usedMem,
                 percent |-> memPercent(node.os.mem)],
        swap |-> [total |-> totalSwap, used |-> usedSwap,
                  percent |-> NodeGetPercentage(usedSwap, totalSwap)],
        fs |-> [total |-> totalFs, used |-> usedFs,
                percent |-> NodeGetPercentage(usedFs, totalFs)]]

\* nodesObj is held as Object.entries(nodesObj): <<[id, node]>>
formatNodeStats(nodesObj) ==
    [i \in 1..Len(nodesObj) |-> formatNode(nodesObj[i].id, nodesObj[i].node)]

\* the percentages the source itself reports, which are no ratio of the amounts
SourcePercents == {7, 99}

RawMems == [used_in_bytes : Amounts, total_in_bytes : Amounts,
            used_percent : SourcePercents]
RawSwaps == {[used_in_bytes |-> 0, total_in_bytes |-> 0],
             [used_in_bytes |-> 1, total_in_bytes |-> MaxAmount]}
RawFs == [total_in_bytes : Amounts, free_in_bytes : Amounts]
RawAttributes == {Undefined, [t |-> "obj", zone |-> Undefined],
                  [t |-> "obj", zone |-> Str("a")]}

RawNode(name, attributes, mem, swap, fs) ==
    [name |-> name, host |-> "h1", roles |-> <<"data">>, attributes |-> attributes,
     os |-> [cpu |-> [percent |-> 5], mem |-> mem, swap |-> swap],
     fs |-> [total |-> fs]]

\* one node of any amounts
OneNodeInputs ==
    {<<[id |-> "id1", node |-> RawNode("n1", a, m, w, f)]>> :
        a \in RawAttributes, m \in RawMems, w \in RawSwaps, f \in RawFs}

NodeStatsInputs ==
    OneNodeInputs \cup
    {<<>>,
     <<[id |-> "id1",
        node |-> RawNode("n1", Undefined,
                         [used_in_bytes |-> 1, total_in_bytes |-> 2, used_percent |-> 7],
                         [used_in_bytes |-> 0, total_in_bytes |-> 0],
                         [total_in_bytes |-> 4, free_in_bytes |-> 1])],
       [id |-> "id2",
        node |-> RawNode("n2", Undefined,
                         [used_in_bytes |-> 0, total_in_bytes |-> 0, used_percent |-> 7],
                         [used_in_bytes |-> 0, total_in_bytes |-> 0],
                         [total_in_bytes |-> 0, free_in_bytes |-> 0])]>>}

FormatNodeStats ==
    /\ nodeStats.out = Unset
    /\ nodeStats' = [nodeStats EXCEPT !.out = Arr(formatNodeStats(nodeStats.raw))]
    /\ UNCHANGED <<ctl, pct, recovery, drift, differences, layout>>

(***************************************************************************)
(* Specifications.                                                         *)
(***************************************************************************)
\* what earlier sessions can have left in localStorage
PersistedStates ==
    {[autoRefresh |-> NoItem, refreshInterval |-> NoItem]} \cup
    [autoRefresh : {"true", "false"},
     refreshInterval : {NoItem} \cup {JSONstringifyNumber(v) : v \in IntervalInputs}]

InitController(b) ==
    /\ mounted = FALSE
    /\ autoRefresh = FALSE
    /\ refreshInterval = Num(MinInterval)
    /\ isIntervalValid = TRUE
    /\ intervalId = 0
    /\ timers = {}
    /\ cycles = [s \in Slots |-> FreeSlot]
    /\ data = InitialData
    /\ loading = NotLoading
    /\ lastRefreshTime = NoData
    /\ toasts = <<>>
    /\ budget = b

NoBudget == [faults |-> 0, stragglers |-> 0]
NoStorage == [autoRefresh |-> NoItem, refreshInterval |-> NoItem]
NoPct == [used |-> 0, total |-> 0, node |-> Unset, cluster |-> Unset]
NoRecovery == [raw |-> <<>>, out |-> Unset]
NoDrift == [config |-> Null, stats |-> Null, nodes |-> <<>>, alert |-> Unset]
NoDifferences == [configured |-> <<>>, actual |-> <<>>, out |-> Unset]
NoLayout == [nodes |-> <<>>, out |-> Unset]
NoNodeStats == [raw |-> <<>>, out |-> Unset]

\* every pure function but the one named has nothing to work on
IdleExcept(x) ==
    /\ IF x = "pct" THEN TRUE ELSE pct = NoPct
    /\ IF x = "recovery" THEN TRUE ELSE recovery = NoRecovery
    /\ IF x = "drift" THEN TRUE ELSE drift = NoDrift
    /\ IF x = "differences" THEN TRUE ELSE differences = NoDifferences
    /\ IF x = "layout" THEN TRUE ELSE layout = NoLayout
    /\ IF x = "nodeStats" THEN TRUE ELSE nodeStats = NoNodeStats

\* the refresh controller, responses may reject, every fetchAllData() call
\* starting after the previous one has completed
Init ==
    /\ storage \in PersistedStates
    /\ InitController([faults |-> MaxFaults, stragglers |-> 0])
    /\ IdleExcept("")

\* the refresh controller, fetchAllData() calls overlap, every response arrives
InitOverlap ==
    /\ storage \in PersistedStates
    /\ InitController([faults |-> 0, stragglers |-> MaxStragglers])
    /\ IdleExcept("")

Next ==
    \/ Mount
    \/ Unmount
    \/ setAutoRefreshPersisted
    \/ \E value \in IntervalInputs : handleIntervalChange(value)
    \/ \E t \in timers : TimerTick(t)
    \/ \E c \in Slots, k \in Kinds, outcome \in AllOutcomes :
          Settle(c, k, outcome)

Spec == Init /\ [][Next]_vars

SpecOverlap == InitOverlap /\ [][Next]_vars

InitPct ==
    /\ storage = NoStorage
    /\ InitController(NoBudget)
    /\ pct \in [used : Bytes, total : Bytes, node : {Unset}, cluster : {Unset}]
    /\ IdleExcept("pct")

NextPct == NodePercentage \/ ClusterPercentage

SpecPct == InitPct /\ [][NextPct]_vars

InitRecovery ==
    /\ storage = NoStorage
    /\ InitController(NoBudget)
    /\ recovery \in [raw : RecoveryInputs, out : {Unset}]
    /\ IdleExcept("recovery")

NextRecovery == FormatRecovery

SpecRecovery == InitRecovery /\ [][NextRecovery]_vars

InitDrift ==
    /\ storage = NoStorage
    /\ InitController(NoBudget)
    /\ drift \in [config : ConfigResponses,
                  stats : {Null, [t |-> "obj"]},
                  nodes : {[i \in 1..Len(l) |-> [name |-> l[i]]] : l \in NameLists},
                  alert : {Unset}]
    /\ IdleExcept("drift")

NextDrift == RenderClusterSection

SpecDrift == InitDrift /\ [][NextDrift]_vars

InitDifferences ==
    /\ storage = NoStorage
    /\ InitController(NoBudget)
    /\ differences \in [configured : DifferenceLists,
                        actual : {NodeRecords(l) : l \in DifferenceLists},
                        out : {Unset}]
    /\ IdleExcept("differences")

NextDifferences == ComputeDifferences

SpecDifferences == InitDifferences /\ [][NextDifferences]_vars

InitLayout ==
    /\ storage = NoStorage
    /\ InitController(NoBudget)
    /\ layout \in [nodes : GraphInputs, out : {Unset}]
    /\ IdleExcept("layout")

NextLayout == RenderNetworkGraph

SpecLayout == InitLayout /\ [][NextLayout]_vars

InitNodeStats ==
    /\ storage = NoStorage
    /\ InitController(NoBudget)
    /\ nodeStats \in [raw : NodeStatsInputs, out : {Unset}]
    /\ IdleExcept("nodeStats")

NextNodeStats == FormatNodeStats

SpecNodeStats == InitNodeStats /\ [][NextNodeStats]_vars

(***************************************************************************)
(* Properties of the refresh controller.                                   *)
(***************************************************************************)
InvalidInputs == {v \in IntervalInputs : ~validateInterval(v)}

\* C1: every live recurring timer has a period of at least MinInterval seconds,
\* also right after a new session has loaded the persisted preferences.
C1_PeriodAtLeastMinimum ==
    \A t \in timers : t.ms >= MinInterval * MsPerSecond

C3_AtMostOneTimer == Cardinality(timers) <= 1

\* a timer created by a re-run of the effect that followed a run holding a timer
C3_Witness ==
    /\ mounted
    /\ \E t \in timers : t.id > 1 /\ t.id = intervalId

\* C4: when the last fetch of a cycle of a mounted instance settles and exactly
\* one kind of that cycle has rejected while every other kind has succeeded,
\* the cycle completes: all loading flags are down, the only notification is the
\* error of the failed kind, every other kind holds the data of this cycle, the
\* failed kind does not, and the last refresh time is the one of this cycle.
OneRejected(st, f) ==
    /\ st[f] = "failed"
    /\ \A k \in Kinds \ {f} : st[k] = "ok"

C4_OneFailureIsIsolated ==
    [][\A c \in Slots, k \in Kinds, o \in {"ok", "failed"} :
          (/\ c \in Used
           /\ Pending(c) = {k}
           /\ ~cycles[c].dead
           /\ ~cycles[c].overlap
           /\ Settle(c, k, o))
          => \A f \in Kinds :
                OneRejected(cycles'[c].st, f)
                => (/\ lastRefreshTime' = Fresh(c)
                    /\ \A k2 \in Kinds \ {f} : data'[k2] = Fresh(c)
                    /\ data'[f] # Fresh(c)
                    /\ toasts' = <<[level |-> "danger", kind |-> f, cycle |-> c]>>
                    /\ loading' = NotLoading)]_vars

C4_Witness ==
    /\ mounted
    /\ \E c \in Used, f \in Kinds :
          /\ ~cycles[c].dead
          /\ OneRejected(cycles[c].st, f)
          /\ lastRefreshTime = Fresh(c)
          /\ toasts = <<[level |-> "danger", kind |-> f, cycle |-> c]>>

\* C5: after teardown no timer is live, and no timer of a torn-down instance
\* ever starts a cycle.
C5_TeardownCancelsTimer ==
    /\ [](~mounted => timers = {})
    /\ [][\A t \in timers : TimerTick(t) => (mounted /\ ~t.dead)]_vars

\* torn down while auto-refresh was on with a valid interval (a timer was live)
\* and with fetches in flight
C5_Witness ==
    /\ ~mounted
    /\ storage.autoRefresh = "true"
    /\ storage.refreshInterval = ToString(MinInterval)
    /\ \E c \in Used : cycles[c].dead
    /\ timers = {}

\* C6: the settling of a fetch that was in flight when its instance was torn
\* down changes no per-kind data and not the last refresh time.
C6_LateResultsDiscarded ==
    [][\A c \in Slots, k \in Kinds, o \in AllOutcomes :
          (c \in Used /\ cycles[c].dead /\ Settle(c, k, o))
          => (data' = data /\ lastRefreshTime' = lastRefreshTime)]_vars

\* every fetch of a torn-down instance has settled while a later instance is
\* mounted with a cycle of its own under way
C6_Witness ==
    /\ mounted
    /\ \E c \in Used : cycles[c].dead /\ Pending(c) = {}
    /\ \E c \in InFlight : ~cycles[c].dead

\* C7: handleIntervalChange(n) leaves n as the persisted interval, whether or
\* not n passes validation: reading the preference back yields n.
C7_IntervalAlwaysPersisted ==
    [][\A n \in TypedInts :
          handleIntervalChange(Num(n))
          => (/\ storage'.refreshInterval = ToString(n)
              /\ JSONparse(storage'.refreshInterval) = Num(n)
              /\ storage'.autoRefresh = storage.autoRefresh)]_vars

\* an invalid interval typed in this session is the persisted one
C7_Witness ==
    /\ mounted /\ ~isIntervalValid
    /\ refreshInterval = Num(MinInterval - 1)
    /\ storage.refreshInterval = ToString(MinInterval - 1)

(***************************************************************************)
(* Properties of the pure functions.                                       *)
(***************************************************************************)
IsZero(p) == p.t = "frac" /\ p.n = 0

\* p = used / total * 100 and 0 <= p <= 100
IsPercentOf(p, used, total) ==
    /\ p.t = "frac"
    /\ p.n * total = used * 100 * p.d
    /\ 0 <= p.n /\ p.n <= 100 * p.d

\* C8: both getPercentage helpers return 0 when total is 0, and used / total * 100,
\* a number within 0 .. 100, when total > 0 and 0 <= used <= total.
C8_PercentBounded ==
    \A p \in {pct.node, pct.cluster} \ {Unset} :
        /\ pct.total = 0 => IsZero(p)
        /\ (pct.total > 0 /\ 0 <= pct.used /\ pct.used <= pct.total)
              => IsPercentOf(p, pct.used, pct.total)

\* both helpers applied to a positive used and a total of 0
C8_Witness ==
    /\ pct.node # Unset /\ pct.cluster # Unset
    /\ pct.total = 0 /\ pct.used > 0

Dash == Str("-")

\* the total the raw shard carries for a group, a missing one counting as 0
RawTotal(group, field) ==
    IF IsNullish(group) \/ IsNullish(group[field]) THEN Num(0) ELSE group[field]

\* C9: in every entry formatRecoveryStats produces, files_percent is "-" exactly
\* when files_total is 0, likewise bytes_percent / bytes_total and
\* translog_percent / translog_total; a total missing from the raw shard gives
\* a total of 0.
C9_DashIffZeroTotal ==
    recovery.out # Unset =>
       /\ \A i \in 1..Len(recovery.out.items) :
             LET e == recovery.out.items[i]
             IN /\ (e.files_percent = Dash) <=> (e.files_total = Num(0))
                /\ (e.bytes_percent = Dash) <=> (e.bytes_total = Num(0))
                /\ (e.translog_percent = Dash) <=> (e.translog_total = Num(0))
       /\ recovery.raw \in OneShardInputs =>
             LET shard == recovery.raw[1].data.shards.items[1]
                 e == recovery.out.items[1]
                 stats == OrEmpty(shard.index, EmptyIndexStats)
             IN /\ Len(recovery.out.items) = 1
                /\ e.translog_total = RawTotal(shard.translog, "total")
                /\ e.files_total = RawTotal(stats.files, "total")
                /\ e.bytes_total = RawTotal(stats.size, "total_in_bytes")

\* one entry with a zero files total, a missing translog total and a non-zero
\* bytes total that carries a percentage
C9_Witness ==
    /\ recovery.out # Unset
    /\ recovery.raw \in OneShardInputs
    /\ LET shard == recovery.raw[1].data.shards.items[1]
           e == recovery.out.items[1]
       IN /\ shard.translog = Undefined
          /\ shard.index # Undefined
          /\ shard.index.files # Undefined
          /\ shard.index.files.total = Num(0)
          /\ shard.index.files.percent # Undefined
          /\ e.files_percent = Dash
          /\ e.translog_percent = Dash
          /\ e.bytes_percent = Str("50.0%")

\* the configured node list is absent (config not loaded, or the [] the route
\* answers without a configuration) or empty
NoConfiguredNodes ==
    \/ drift.config.t \in {"null", "arr"}
    \/ drift.config.t = "obj" /\ drift.config.nodes = <<>>

\* C10: with the configured node list absent or empty the cluster section
\* reports no missing and no unexpected node, whatever nodes are observed.
C10_NoDriftWithoutConfiguredNodes ==
    (drift.alert # Unset /\ NoConfiguredNodes)
       => (/\ ~drift.alert.shown
           /\ ~drift.alert.threw
           /\ drift.alert.missing = <<>>
           /\ drift.alert.extra = <<>>)

(***************************************************************************)
(* Properties of getNodeDifferences.                                       *)
(***************************************************************************)
Names(records) == [i \in 1..Len(records) |-> records[i].name]

\* the lists with the members of list in another order
Permuted(list) ==
    {[i \in 1..Len(list) |-> list[p[i]]] : p \in Permutations(1..Len(list))}

\* C11: getNodeDifferences(A, records whose names are exactly A) returns an empty
\* missingNodes and an empty extraNodes list, for every list of names A (also
\* when the records carry the names of A in another order).
C11_NoDifferencesOnEqualNames ==
    (/\ differences.out # Unset
     /\ Range(Names(differences.actual)) = Range(differences.configured))
       => (differences.out.missingNodes = <<>> /\ differences.out.extraNodes = <<>>)

\* records carrying exactly the names of a non-empty A, here in A's own order
C11_Witness ==
    /\ differences.out # Unset
    /\ Len(differences.configured) > 1
    /\ Names(differences.actual) = differences.configured
    /\ differences.out.missingNodes = <<>>
    /\ differences.out.extraNodes = <<>>

\* C12: the names of missingNodes are the configured names not among the actual
\* ones, the names of extraNodes the actual names not among the configured ones,
\* and these two sets of names are the same for every reordering of either input.
C12_SetDifferenceBothWays ==
    differences.out # Unset =>
       LET configured == Range(differences.configured)
           actual == Range(Names(differences.actual))
       IN /\ Range(differences.out.missingNodes) = configured \ actual
          /\ Range(differences.out.extraNodes) = actual \ configured
          /\ \A c \in Permuted(differences.configured),
                a \in Permuted(differences.actual) :
                LET d == getNodeDifferences(c, a)
                IN /\ Range(d.missingNodes) = Range(differences.out.missingNodes)
                   /\ Range(d.extraNodes) = Range(differences.out.extraNodes)

\* both directions non-empty, with inputs that have more than one order
C12_Witness ==
    /\ differences.out # Unset
    /\ differences.out.missingNodes # <<>>
    /\ differences.out.extraNodes # <<>>
    /\ Cardinality(Range(differences.configured)) > 1

(***************************************************************************)
(* Properties of the topology layout.                                      *)
(***************************************************************************)
ZoneNames(out) == [z \in 1..Len(out.zones) |-> out.zones[z].zone]

\* C13: the layout of a node list is the layout of each of its reorderings: the
\* same zones in the same order, in each zone the same roles in the same order,
\* in each role the same hosts in the same order, and the same heights and
\* positions of every rectangle and label.
C13_LayoutIgnoresInputOrder ==
    layout.out # Unset =>
       \A nodes \in Permuted(layout.nodes) : NetworkGraph(nodes) = layout.out

\* two nodes of two zones and of one role, both given in descending order
C13_Witness ==
    /\ layout.out # Unset
    /\ Len(layout.nodes) = 2
    /\ layout.nodes[1].name = <<"n", "2">> /\ layout.nodes[2].name = <<"n", "1">>
    /\ layout.nodes[1].zone = Str(<<"b">>) /\ layout.nodes[2].zone = Str(<<"a">>)
    /\ layout.nodes[1].roles = <<<<"m">>, <<"d">>>>
    /\ layout.nodes[2].roles = <<<<"d">>>>
    /\ ZoneNames(layout.out) = <<<<"a">>, <<"b">>>>

\* C14: in every zone of a layout each role block starts at or below the end of
\* the block before it, so no two role-block rectangles of a zone intersect.
C14_RoleBlocksDisjoint ==
    layout.out # Unset =>
       \A z \in 1..Len(layout.out.zones) :
          LET blocks == layout.out.zones[z].blocks
          IN \A i, j \in 1..Len(blocks) :
                i < j => blocks[i].top + blocks[i].height <= blocks[j].top

\* a zone with a block of two hosts followed by another block
C14_Witness ==
    /\ layout.out # Unset
    /\ \E z \in 1..Len(layout.out.zones) :
          LET blocks == layout.out.zones[z].blocks
          IN Len(blocks) > 1 /\ Len(blocks[1].hosts) > 1

BlockHeights(zone) == [b \in 1..Len(zone.blocks) |-> zone.blocks[b].height]

\* a role block is as high as its title, its padding and its hosts
BlocksFitTheirHosts(zone) ==
    \A b \in 1..Len(zone.blocks) :
       zone.blocks[b].height =
          roleTitleHeight + rolePadding + Len(zone.blocks[b].hosts) * hostSpacing

\* C15 (as the code has it): a drawn role block is title height + role padding +
\* hosts x host spacing high, and the height of a zone is the title allowance
\* plus, per role, the drawn block height, one more padding and the role margin.
C15_ZoneHeightReservesPaddingPerRole ==
    layout.out # Unset =>
       \A z \in 1..Len(layout.out.zones) :
          LET zone == layout.out.zones[z]
          IN /\ BlocksFitTheirHosts(zone)
             /\ zone.height = zoneTitleHeight + SumSeq(BlockHeights(zone))
                                 + Len(zone.blocks) * (padding + roleMargin)

\* a zone of two role blocks
C15_Witness ==
    /\ layout.out # Unset
    /\ \E z \in 1..Len(layout.out.zones) : Len(layout.out.zones[z].blocks) = 2

\* C15 (as the specification words it): the height of a zone is the title
\* allowance plus the heights of the role blocks drawn in it plus one role
\* margin per role.
C15_ZoneHeightMatchesDrawnBlocks ==
    layout.out # Unset =>
       \A z \in 1..Len(layout.out.zones) :
          LET zone == layout.out.zones[z]
          IN /\ BlocksFitTheirHosts(zone)
             /\ zone.height = zoneTitleHeight + SumSeq(BlockHeights(zone))
                                 + Len(zone.blocks) * roleMargin

\* the names some node with roles carries
NamesWithRoles(nodes) == {nodes[i].name : i \in {j \in 1..Len(nodes) : nodes[j].roles # <<>>}}

\* C16: a node without roles is under no role block: every host label of the
\* layout is the name of a node that has a role, so the name of a node without
\* roles appears nowhere (unless a node with roles carries the same name).
C16_NodesWithoutRolesOmitted ==
    layout.out # Unset =>
       \A z \in 1..Len(layout.out.zones) :
          \A b \in 1..Len(layout.out.zones[z].blocks) :
             \A h \in 1..Len(layout.out.zones[z].blocks[b].hosts) :
                layout.out.zones[z].blocks[b].hosts[h].label
                   \in NamesWithRoles(layout.nodes)

\* a node without roles next to a node of another name with a role
C16_Witness ==
    /\ layout.out # Unset
    /\ Len(layout.nodes) = 2
    /\ layout.nodes[1].roles = <<>>
    /\ layout.nodes[2].roles # <<>>
    /\ layout.nodes[1].name # layout.nodes[2].name
    /\ layout.nodes[1].zone = layout.nodes[2].zone

(***************************************************************************)
(* Properties of formatNodeStats.                                          *)
(***************************************************************************)
\* p = 0 when total is 0, else p = used / total * 100
IsDerivedPercent(p, used, total) ==
    /\ p.t = "frac"
    /\ IF total = 0 THEN p.n = 0 ELSE p.n * total = used * 100 * p.d

\* C17: formatNodeStats gives one record per raw node, with fs.used = total_in_bytes
\* - free_in_bytes and with the mem, swap and fs percent equal to used / total * 100,
\* 0 when total is 0, whatever percentage the source reports.
C17_NodePercentsDerived ==
    nodeStats.out # Unset =>
       /\ Len(nodeStats.out.items) = Len(nodeStats.raw)
       /\ \A i \in 1..Len(nodeStats.raw) :
             LET node == nodeStats.raw[i].node
                 e == nodeStats.out.items[i]
             IN /\ e.fs.used = node.fs.total.total_in_bytes - node.fs.total.free_in_bytes
                /\ e.fs.total = node.fs.total.total_in_bytes
                /\ e.mem.used = node.os.mem.used_in_bytes
                /\ e.mem.total = node.os.mem.total_in_bytes
                /\ IsDerivedPercent(e.mem.percent, e.mem.used, e.mem.total)
                /\ IsDerivedPercent(e.swap.percent, e.swap.used, e.swap.total)
                /\ IsDerivedPercent(e.fs.percent, e.fs.used, e.fs.total)

\* mem 1 of 2 gives 50, swap 0 of 0 gives 0, fs with 1 free of 4 gives used 3 and 75
C17_Witness ==
    /\ nodeStats.out # Unset
    /\ Len(nodeStats.raw) = 2
    /\ LET e == nodeStats.out.items[1]
       IN /\ e.mem.percent = Frac(100, 2)
          /\ e.swap.percent = Zero
          /\ e.fs.used = 3
          /\ e.fs.percent = Frac(300, 4)
          /\ nodeStats.raw[1].node.os.mem.used_percent = 7

(***************************************************************************)
(* Further properties of the refresh controller.                           *)
(***************************************************************************)
\* C18: when the snapshots request of a mounted instance settles with an empty
\* list or with no snapshots property, the snapshot list becomes empty, no other
\* kind's data changes, the request does not count as rejected and no error
\* notification is added (without snapshots property one warning is added), and
\* the snapshots loading flag is down.
C18_NoSnapshotsIsNoFailure ==
    [][\A c \in Slots, o \in {"empty", "nodata"} :
          (c \in Used /\ ~cycles[c].dead /\ Settle(c, "snapshots", o))
          => (/\ data'["snapshots"] = NoData
              /\ \A k \in Kinds \ {"snapshots"} : data'[k] = data[k]
              /\ cycles'[c].st["snapshots"] # "failed"
              /\ toasts' = IF o = "nodata"
                           THEN Append(toasts, [level |-> "warning",
                                                kind |-> "snapshots", cycle |-> c])
                           ELSE toasts
              /\ ~loading'["snapshotsLoading"])]_vars

\* a completed cycle of a mounted instance whose snapshots response carried no
\* snapshots property, every other kind having answered
C18_Witness ==
    /\ mounted
    /\ \E c \in Used :
          /\ ~cycles[c].dead
          /\ cycles[c].st["snapshots"] = "nodata"
          /\ \A k \in Kinds \ {"snapshots"} : cycles[c].st[k] = "ok"
          /\ data["snapshots"] = NoData
          /\ lastRefreshTime = Fresh(c)

\* C19: after a change of the auto-refresh switch or of the interval a recurring
\* timer is live exactly if autoRefresh is on and the current interval is at
\* least MinInterval, there is then one timer, and its period is the current
\* interval.
C19_TimerIffSwitchOnAndIntervalValid ==
    [][(setAutoRefreshPersisted \/ \E v \in IntervalInputs : handleIntervalChange(v))
          => (/\ (timers' # {}) <=> (autoRefresh' /\ validateInterval(refreshInterval'))
              /\ Cardinality(timers') <= 1
              /\ \A t \in timers' : t.ms = TimerDelay(refreshInterval'))]_vars

\* C20: while an instance is mounted, the loading flag of a kind is up whenever a
\* fetch of that kind is in flight for it.
C20_LoadingWhileInFlight ==
    mounted =>
       \A k \in Kinds :
          (\E c \in Used : ~cycles[c].dead /\ cycles[c].st[k] = "pending")
             => loading[FlagOf(k)]

\* C21: the last refresh time is set to a cycle's time by the settling of the
\* last pending fetch of that cycle and by no earlier settling of it, whatever
\* the outcomes: it never carries the time of a cycle that still has a fetch
\* in flight, and every cycle of a mounted instance records its time once.
C21_TimestampOnceAfterAllSettled ==
    /\ [](\A c \in Used : lastRefreshTime = Fresh(c) => Pending(c) = {})
    /\ [][\A c \in Slots, k \in Kinds, o \in AllOutcomes :
             (c \in Used /\ ~cycles[c].dead /\ Settle(c, k, o))
             => IF Pending(c) = {k}
                THEN lastRefreshTime # Fresh(c) /\ lastRefreshTime' = Fresh(c)
                ELSE lastRefreshTime' = lastRefreshTime]_vars

\* a cycle of a mounted instance has recorded its time although one of its fetches
\* was rejected
C21_Witness ==
    /\ mounted
    /\ \E c \in Used :
          /\ Pending(c) = {}
          /\ cycles[c].st["snapshots"] = "failed"
          /\ Len(toasts) = 1
          /\ data["snapshots"] = NoData
          /\ \A k \in Kinds \ {"snapshots"} : data[k] = Fresh(c)
          /\ lastRefreshTime = Fresh(c)

\* C22: a live timer fires whatever is in flight: its tick is possible in every
\* state in which the timer exists, and a tick that finds cycles in flight
\* starts one more cycle and leaves the pending fetches of the others pending.
C22_TickIgnoresCyclesInFlight ==
    /\ [](\A t \in timers : CanFetch => ENABLED TimerTick(t))
    /\ [][\A t \in timers :
             (InFlight # {} /\ TimerTick(t))
             => (/\ Cardinality(InFlight') = Cardinality(InFlight) + 1
                 /\ \A c \in InFlight : Pending(c) = {k \in Kinds : cycles'[c].st[k] = "pending"})]_vars

\* auto-refresh is on, the timer is live and two cycles of the mounted instance
\* are in flight at once, the older one with a single fetch left to settle
C22_Witness ==
    /\ mounted
    /\ autoRefresh
    /\ \E t \in timers : t.id = intervalId /\ ~t.dead
    /\ \E c1, c2 \in InFlight :
          /\ ~cycles[c1].dead
          /\ ~cycles[c2].dead
          /\ Cardinality(Pending(c1)) = 1
          /\ Pending(c2) = Kinds

(***************************************************************************)
(* Further properties of formatRecoveryStats.                              *)
(***************************************************************************)
\* the shard entries an index of the raw data carries
RawShards(entry) ==
    IF IsNullish(entry.data.shards) THEN <<>> ELSE entry.data.shards.items

\* the number of shard entries of the indices before the one at position i
ShardsBefore(raw, i) == SumSeq([j \in 1..(i - 1) |-> Len(RawShards(raw[j]))])

\* C23: the list formatRecoveryStats returns has one record per shard entry of
\* the raw data, in the order of the indices and, within an index, of its
\* shards: its length is the sum of the shard-list lengths, the record of shard
\* j of index i stands at position (shards of earlier indices) + j and carries
\* the name of index i and the id of that shard; an index without shards
\* property counts as one with an empty shard list.
C23_OneRecordPerShardInOrder ==
    recovery.out # Unset =>
       LET raw == recovery.raw
           out == recovery.out.items
       IN /\ Len(out) = ShardsBefore(raw, Len(raw) + 1)
          /\ \A i \in 1..Len(raw) :
                \A j \in 1..Len(RawShards(raw[i])) :
                   LET e == out[ShardsBefore(raw, i) + j]
                   IN /\ e.index = raw[i].name
                      /\ e.shard = RawShards(raw[i])[j].id

\* a first index with two shards followed by one without shards property: two
\* records, both of the first index, in the order of its shards
C23_Witness ==
    /\ recovery.out # Unset
    /\ Len(recovery.raw) = 2
    /\ IsNullish(recovery.raw[2].data.shards)
    /\ Len(RawShards(recovery.raw[1])) = 2
    /\ RawShards(recovery.raw[1])[1].id # RawShards(recovery.raw[1])[2].id
    /\ Len(recovery.out.items) = 2
    /\ recovery.out.items[1].shard = RawShards(recovery.raw[1])[1].id
    /\ recovery.out.items[2].index = IndexName(1)

\* the percent string the raw shard carries for a group
RawPercent(group) == IF IsNullish(group) THEN Undefined ELSE group.percent

\* the percent field of an entry against the group it was made from
PassedThrough(total, percent, group) ==
    total # Num(0) =>
       /\ RawPercent(group) # Undefined => percent = RawPercent(group)
       /\ RawPercent(group) = Undefined => percent = Str("0%")

\* C24: in every entry whose files_total is not 0, files_percent is the percent
\* string the raw shard carries under index.files, as it is; likewise
\* bytes_percent with index.size and translog_percent with translog. Where the
\* raw shard carries no percent there, the field is "0%".
C24_PercentPassedThrough ==
    (recovery.out # Unset /\ recovery.raw \in OneShardInputs) =>
       LET shard == recovery.raw[1].data.shards.items[1]
           e == recovery.out.items[1]
           stats == OrEmpty(shard.index, EmptyIndexStats)
       IN /\ PassedThrough(e.files_total, e.files_percent, stats.files)
          /\ PassedThrough(e.bytes_total, e.bytes_percent, stats.size)
          /\ PassedThrough(e.translog_total, e.translog_percent, shard.translog)

\* one entry whose files and bytes totals are not 0 and carry a percent string,
\* and whose translog total is not 0 without a percent string
C24_Witness ==
    /\ recovery.out # Unset
    /\ recovery.raw \in OneShardInputs
    /\ LET shard == recovery.raw[1].data.shards.items[1]
           e == recovery.out.items[1]
       IN /\ e.files_total = Num(1)
          /\ e.bytes_total = Num(1)
          /\ e.translog_total = Num(1)
          /\ shard.translog.percent = Undefined
          /\ e.files_percent = Str("50.0%")
          /\ e.bytes_percent = Str("50.0%")
          /\ e.translog_percent = Str("0%")

(***************************************************************************)
(* Further properties of the NetworkGraph layout.                          *)
(***************************************************************************)
\* the points the positions memo holds for a host label
PointsOf(out, label) ==
    IF HasKey(out.positions, label) THEN Range(GetKey(out.positions, label)) ELSE {}

\* the number of points of the positions memo
PointCount(out) ==
    SumSeq([i \in 1..Len(out.positions) |-> Len(out.positions[i].val)])

\* the number of host labels drawn
HostCount(out) ==
    SumSeq([z \in 1..Len(out.zones) |->
              SumSeq([b \in 1..Len(out.zones[z].blocks) |->
                        Len(out.zones[z].blocks[b].hosts)])])

\* C25: the positions memo holds one point per (zone, role, host) triple drawn.
\* The point of the h-th host of a role block has as x the middle of the zone
\* column and as y the top of the drawn role block plus the title height and
\* role padding plus (h - 1) host spacings; it is the place where the host label
\* is drawn and lies inside the rectangle of its role block.
C25_HostPointsInsideTheirBlocks ==
    layout.out # Unset =>
       /\ PointCount(layout.out) = HostCount(layout.out)
       /\ \A z \in 1..Len(layout.out.zones) :
             LET zone == layout.out.zones[z]
             IN \A b \in 1..Len(zone.blocks) :
                   LET block == zone.blocks[b]
                   IN \A h \in 1..Len(block.hosts) :
                         LET x == zone.left + zone.width \div 2
                             y == block.top + roleTitleHeight + rolePadding
                                     + (h - 1) * hostSpacing
                         IN /\ [x |-> x, y |-> y] \in PointsOf(layout.out, block.hosts[h].label)
                            /\ x = zone.left + block.left + block.hosts[h].x
                            /\ y = block.top + block.hosts[h].y
                            /\ zone.left + block.left <= x
                            /\ x <= zone.left + block.left + block.width
                            /\ block.top <= y
                            /\ y <= block.top + block.height

\* two hosts under the first role of a zone, the first of them also under the
\* second role: its two points are the top place of the first block and the
\* top place of the block below it, the other host's point is one host spacing
\* below the first
C25_Witness ==
    /\ layout.out # Unset
    /\ Len(layout.out.zones) = 1
    /\ Len(layout.out.zones[1].blocks) = 2
    /\ Len(layout.out.zones[1].blocks[1].hosts) = 2
    /\ Len(layout.out.positions) = 2
    /\ layout.out.positions[1].val
          = <<[x |-> zoneWidth \div 2,
               y |-> zoneTitleHeight + roleTitleHeight + rolePadding],
              [x |-> zoneWidth \div 2,
               y |-> zoneTitleHeight + roleBlockHeight(<<1, 2>>) + roleMargin
                        + roleTitleHeight + rolePadding]>>
    /\ layout.out.positions[2].val
          = <<[x |-> zoneWidth \div 2,
               y |-> zoneTitleHeight + roleTitleHeight + rolePadding + hostSpacing]>>

(***************************************************************************)
(* Further properties of the refresh controller: cycles.                   *)
(***************************************************************************)
\* the step starts exactly one cycle, of the mounted instance, with the fetch
\* of every kind pending, and leaves the pending fetches of the others pending
StartsOneCycle ==
    \E c \in Slots \ InFlight :
       /\ cycles'[c].used
       /\ ~cycles'[c].dead
       /\ \A k \in Kinds : cycles'[c].st[k] = "pending"
       /\ \A d \in InFlight : cycles'[d].st = cycles[d].st
       /\ \A d \in Slots \ (InFlight \cup {c}) : ~cycles'[d].used

\* C26: a mount, a change of the auto-refresh switch, and an interval input
\* that changes the interval value or its validity each start exactly one cycle
\* in the same step, whether or not a timer is live afterwards; an interval
\* input that changes neither starts none.
C26_EveryChangeStartsOneCycle ==
    [][/\ (Mount \/ setAutoRefreshPersisted) => StartsOneCycle
       /\ \A v \in IntervalInputs :
             handleIntervalChange(v)
             => IF v # refreshInterval \/ validateInterval(v) # isIntervalValid
                THEN StartsOneCycle
                ELSE cycles' = cycles]_vars

\* auto-refresh was switched off after a cycle had completed: no timer is live
\* and the cycle that the switch started is in flight
C26_Witness ==
    /\ mounted
    /\ ~autoRefresh
    /\ storage.autoRefresh = "false"
    /\ timers = {}
    /\ lastRefreshTime # NoData
    /\ \E c \in Used : ~cycles[c].dead /\ Pending(c) = Kinds

\* the kinds whose fetcher stores a response and nothing else
PlainKinds == {"cluster", "nodes", "recovery", "clusterStats"}

\* C27: a fetch of cluster health, nodes, recovery or cluster stats of the
\* mounted instance that settles with a response stores that response, whatever
\* the kind holds and whichever cycle it came from; the data of such a kind
\* changes in no other way while the instance lives (apart from responses of
\* completed cycles being told from newer ones no longer).
C27_LastSettleWins ==
    /\ [][\A c \in Slots, k \in PlainKinds :
             (c \in Used /\ ~cycles[c].dead /\ Settle(c, k, "ok"))
             => data'[k] = Fresh(c)]_vars
    /\ [][\A k \in PlainKinds :
             (mounted /\ mounted' /\ data'[k] # data[k])
             => \/ \E c \in Used :
                      /\ ~cycles[c].dead
                      /\ cycles[c].st[k] = "pending"
                      /\ cycles'[c].st[k] = "ok"
                      /\ data'[k] = Fresh(c)
                \/ data[k].of = "cycle" /\ data'[k] = Stale]_vars

\* two cycles of the mounted instance overlap; the newer one (most of its
\* fetches still pending) has had its nodes response, yet the nodes data is the
\* response of the older, completed cycle, which arrived after it
C27_Witness ==
    /\ mounted
    /\ \E old, new \in Used :
          /\ old # new
          /\ ~cycles[old].dead
          /\ ~cycles[new].dead
          /\ Pending(old) = {}
          /\ Pending(new) = Kinds \ {"nodes"}
          /\ cycles[new].st["nodes"] = "ok"
          /\ data["nodes"] = Fresh(old)

\* C28: when a fetch of the mounted instance is rejected, the data of every
\* kind stays as it was, except that a rejected snapshots fetch leaves the
\* snapshot list empty; the loading flag of the kind is down afterwards and
\* exactly one error notification, naming the kind, has been added.
C28_FailureKeepsData ==
    [][\A c \in Slots, k \in Kinds :
          (c \in Used /\ ~cycles[c].dead /\ Settle(c, k, "failed"))
          => (/\ \A k2 \in Kinds \ {"snapshots"} : data'[k2] = data[k2]
              /\ data'["snapshots"] = IF k = "snapshots" THEN NoData
                                                         ELSE data["snapshots"]
              /\ ~loading'[FlagOf(k)]
              /\ toasts' = Append(toasts, [level |-> "danger", kind |-> k,
                                           cycle |-> c]))]_vars

\* the nodes fetch of a later cycle was rejected: the nodes data is still the
\* response of an earlier cycle, one error notification is shown and the
\* shared loading flag is down
C28_Witness ==
    /\ mounted
    /\ \E c \in Used :
          /\ ~cycles[c].dead
          /\ cycles[c].st["nodes"] = "failed"
          /\ data["nodes"] = Stale
          /\ toasts = <<[level |-> "danger", kind |-> "nodes", cycle |-> c]>>
          /\ ~loading["loading"]
          /\ Pending(c) # {}

\* C29: in every layout each role-block rectangle lies within the background
\* rectangle of its zone: it starts at or below the zone title allowance, ends
\* at or above the zone's lower edge and lies between the zone's left and right
\* edges; no zone is higher than the canvas, and the canvas is as high as the
\* highest zone.
C29_BlocksInsideZoneInsideCanvas ==
    layout.out # Unset =>
       /\ \A z \in 1..Len(layout.out.zones) :
             LET zone == layout.out.zones[z]
             IN /\ layout.out.totalHeight.t = "num"
                /\ zone.height <= layout.out.totalHeight.v
                /\ \A b \in 1..Len(zone.blocks) :
                      LET block == zone.blocks[b]
                      IN /\ zoneTitleHeight <= block.top
                         /\ block.top + block.height <= zone.height
                         /\ 0 <= block.left
                         /\ block.left + block.width <= zone.width
       /\ layout.out.zones # <<>>
             => \E z \in 1..Len(layout.out.zones) :
                   layout.out.totalHeight = Num(layout.out.zones[z].height)

\* two zones of different heights, the higher one with two role blocks
C29_Witness ==
    /\ layout.out # Unset
    /\ Len(layout.out.zones) = 2
    /\ Len(layout.out.zones[1].blocks) = 2
    /\ Len(layout.out.zones[2].blocks) = 1
    /\ layout.out.zones[2].height < layout.out.zones[1].height
    /\ layout.out.totalHeight = Num(layout.out.zones[1].height)
    /\ layout.out.zones[1].blocks[2].top + layout.out.zones[1].blocks[2].height
          < layout.out.zones[1].height

\* the zone a node is shown in: "default" without a zone or with the empty
\* string as zone, else its zone without leading and trailing blanks
ShownZone(n) ==
    IF n.zone = Null \/ n.zone = Str(<<>>) THEN Default ELSE trim(n.zone.s)

ShownZones(nodes) == {ShownZone(nodes[i]) : i \in 1..Len(nodes)}

\* C30: the zone columns of a layout are the zones its nodes are shown in, each
\* once, whatever roles the nodes have; the canvas is one column width and one
\* zone margin wide per such zone; a zone all of whose nodes have no role has
\* no role block and the height of the zone title allowance.
C30_EveryZoneHasAColumn ==
    layout.out # Unset =>
       /\ Range(ZoneNames(layout.out)) = ShownZones(layout.nodes)
       /\ Len(layout.out.zones) = Cardinality(ShownZones(layout.nodes))
       /\ layout.out.totalWidth
             = Cardinality(ShownZones(layout.nodes)) * (zoneWidth + zoneMargin)
       /\ \A z \in 1..Len(layout.out.zones) :
             LET zone == layout.out.zones[z]
             IN (\A i \in 1..Len(layout.nodes) :
                    ShownZone(layout.nodes[i]) = zone.zone
                       => layout.nodes[i].roles = <<>>)
                => (zone.blocks = <<>> /\ zone.height = zoneTitleHeight)

\* a node with a role in zone "a" and a node without zone and without roles:
\* the second column is the zone "default", empty and as high as its title
\* allowance, and the canvas is two columns wide
C30_Witness ==
    /\ layout.out # Unset
    /\ Len(layout.nodes) = 2
    /\ \E i \in 1..2 : layout.nodes[i].zone = Null /\ layout.nodes[i].roles = <<>>
    /\ ZoneNames(layout.out) = <<<<"a">>, Default>>
    /\ layout.out.zones[1].blocks # <<>>
    /\ layout.out.zones[2].blocks = <<>>
    /\ layout.out.zones[2].height = zoneTitleHeight
    /\ layout.out.totalWidth = 2 * (zoneWidth + zoneMargin)

====
